---- MODULE Spec2Model ----
(***************************************************************************)
(* Request-time authorization of baotuo-YS.                                *)
(*                                                                         *)
(* The repository holds five iterations of the Next.js middleware:         *)
(*   "verify"  src/unnamed/part_000:15-119    getConfig + db.verifyUser    *)
(*   "fresh"   src/unnamed/part_000:121-252   fresh /api/server-config     *)
(*   "db"      src/src/middleware.ts:1-204    direct store query           *)
(*   "status"  src/src/middleware.ts:206-425  /api/auth/status per request *)
(*   "cache"   src/src/app/api/detail/route.ts:87-271  15 s ban cache      *)
(* and two route handlers the middlewares fetch from                       *)
(* (src/src/app/api/auth/status/route.ts).                                 *)
(*                                                                         *)
(* Strings are sequences of one-character strings.  A path is written as   *)
(* the sequence of its pieces, cut at every place where one of the prefix  *)
(* constants of the source ends, so that startsWith on pieces is           *)
(* startsWith on characters for every path of the model.                   *)
(***************************************************************************)
EXTENDS Integers, Sequences, FiniteSets, TLC

(***************************************************************************)
(* Bounds                                                                  *)
(***************************************************************************)
\* bytes of the modelled MAC (HMAC-SHA-256 has 32)
MacLen == 2
\* how many times the clock may advance
MaxTicks == 3
\* how deep a middleware may re-enter itself through its own fetch before
\* the platform refuses the sub-request
MaxDepth == 2

(***************************************************************************)
(* Strings                                                                 *)
(***************************************************************************)
StartsWith(s, p) == Len(p) <= Len(s) /\ SubSeq(s, 1, Len(p)) = p

LowerChar(c) ==
  CASE c = "A" -> "a"
    [] c = "B" -> "b"
    [] OTHER -> c

ToLowerCase(s) == [i \in 1..Len(s) |-> LowerChar(s[i])]

IsSpace(c) == c = " "

RECURSIVE TrimStart(_)
TrimStart(s) ==
  IF s = <<>> THEN <<>>
  ELSE IF IsSpace(Head(s)) THEN TrimStart(Tail(s)) ELSE s

RECURSIVE TrimEnd(_)
TrimEnd(s) ==
  IF s = <<>> THEN <<>>
  ELSE IF IsSpace(s[Len(s)]) THEN TrimEnd(SubSeq(s, 1, Len(s) - 1)) ELSE s

Trim(s) == TrimEnd(TrimStart(s))

\* const LOWER = (s?: string) => (s ?? '').trim().toLowerCase();
\* an absent string is the empty sequence in this model
LOWER(s) == ToLowerCase(Trim(s))

(***************************************************************************)
(* Signature verification                                                  *)
(***************************************************************************)
CharCode(c) ==
  CASE c = "a" -> 97
    [] c = "b" -> 98
    [] c = "A" -> 65
    [] c = "B" -> 66
    [] c = " " -> 32
    [] c = "p" -> 112
    [] c = "q" -> 113
    [] OTHER -> 63

RECURSIVE Mix(_, _)
Mix(s, h) == IF s = <<>> THEN h ELSE Mix(Tail(s), (h * 31 + CharCode(Head(s))) % 256)

\* crypto.subtle HMAC/SHA-256 is a platform primitive: a keyed digest of
\* MacLen bytes, different for every (message, key) pair of the model
Hmac(data, key) ==
  [i \in 1..MacLen |-> Mix(key \o <<"|">> \o data, (7 + 90 * i) % 256)]

HexDigits ==
  <<"0", "1", "2", "3", "4", "5", "6", "7", "8", "9", "a", "b", "c", "d", "e", "f">>

ToHex(bytes) ==
  [i \in 1..(2 * Len(bytes)) |->
     IF i % 2 = 1 THEN HexDigits[(bytes[(i + 1) \div 2] \div 16) + 1]
     ELSE HexDigits[(bytes[i \div 2] % 16) + 1]]

\* the credential the login flow mints for a user: hex of the HMAC
Sign(data, secret) == ToHex(Hmac(data, secret))

IsHexDigit(c) == \E i \in 1..16 : HexDigits[i] = LowerChar(c) \/ c \in {"C", "D", "E", "F"}

HexVal(c) ==
  CASE c = "C" -> 12
    [] c = "D" -> 13
    [] c = "E" -> 14
    [] c = "F" -> 15
    [] OTHER -> (CHOOSE i \in 1..16 : HexDigits[i] = LowerChar(c)) - 1

RECURSIVE HexPrefix(_, _, _)
\* value of the longest run of hex digits at the front of s
HexPrefix(s, acc, seen) ==
  IF s # <<>> /\ IsHexDigit(Head(s))
    THEN HexPrefix(Tail(s), acc * 16 + HexVal(Head(s)), TRUE)
    ELSE [nan |-> ~seen, v |-> acc]

\* parseInt(byte, 16): leading white space, a sign, "0x", then hex digits
ParseInt16(chunk) ==
  LET s1 == TrimStart(chunk)
      neg == s1 # <<>> /\ Head(s1) = "-"
      s2 == IF s1 # <<>> /\ Head(s1) \in {"-", "+"} THEN Tail(s1) ELSE s1
      s3 == IF Len(s2) >= 2 /\ s2[1] = "0" /\ s2[2] \in {"x", "X"}
              THEN SubSeq(s2, 3, Len(s2)) ELSE s2
      p == HexPrefix(s3, 0, FALSE)
  IN [nan |-> p.nan, v |-> IF neg THEN 0 - p.v ELSE p.v]

\* new Uint8Array([...]) : NaN becomes 0, anything else is taken modulo 256
ToUint8(n) == IF n.nan THEN 0 ELSE n.v % 256

\* signature.match(/.{1,2}/g) : pieces of two characters, the last may be one
Chunks(sig) ==
  [i \in 1..((Len(sig) + 1) \div 2) |->
     SubSeq(sig, 2 * i - 1, IF 2 * i <= Len(sig) THEN 2 * i ELSE Len(sig))]

SignatureBuffer(sig) ==
  LET ch == Chunks(sig) IN [i \in 1..Len(ch) |-> ToUint8(ParseInt16(ch[i]))]

\* verifySignature with the key of one deployment built in
verifySignatureFixedKey(data, signature, secret) ==
  IF secret = <<>> THEN FALSE
  ELSE SignatureBuffer(signature) = Hmac(data, <<"p">>)

\* importKey rejects a zero-length key (caught: false); verify compares the
\* decoded signature with the HMAC of the data
verifySignature(data, signature, secret) ==
  IF secret = <<>> THEN FALSE
  ELSE SignatureBuffer(signature) = Hmac(data, secret)

(***************************************************************************)
(* Paths, skip lists and matchers                                          *)
(***************************************************************************)
PathHome == <<"/">>
PathPlay == <<"/", "play">>
PathApiDetail == <<"/", "api", "/", "detail">>
PathApiStatus == <<"/", "api", "/", "auth", "/", "status">>
PathApiServerConfig == <<"/", "api", "/", "server-config">>
PathStatic == <<"/", "_next", "/", "static", "/chunk.js">>
PathRobots == <<"/", "robots.txt">>
PathLogin == <<"/", "login">>
PathWarning == <<"/", "warning">>
PathRegister == <<"/", "register">>
PathLogo == <<"/", "logo.png">>

\* pathname.startsWith('/api')
IsApi(path) == StartsWith(path, <<"/", "api">>)

\* part_000:91-109
shouldSkipAuthVerify(pathname) ==
  \E p \in { <<"/", "login">>, <<"/", "register">>, <<"/", "warning">>,
             <<"/", "api", "/", "login">>, <<"/", "api", "/", "register">>,
             <<"/", "api", "/", "logout">>, <<"/", "api", "/", "cron">>,
             <<"/", "api", "/", "server-config">>, <<"/", "favicon", ".ico">>,
             <<"/", "_next", "/", "static">>, <<"/", "_next", "/", "image">>,
             <<"/", "icons", "/">>, <<"/", "logo.png">>, <<"/", "screenshot.png">> } :
     StartsWith(pathname, p)

\* part_000:145-162
shouldSkip(pathname) ==
  \/ StartsWith(pathname, <<"/", "_next">>)
  \/ StartsWith(pathname, <<"/", "favicon">>)
  \/ pathname = <<"/", "robots.txt">>
  \/ StartsWith(pathname, <<"/", "manifest">>)
  \/ StartsWith(pathname, <<"/", "icons">>)
  \/ StartsWith(pathname, <<"/", "sitemap">>)
  \/ StartsWith(pathname, <<"/", "login">>)
  \/ StartsWith(pathname, <<"/", "warning">>)
  \/ StartsWith(pathname, <<"/", "api", "/", "login">>)
  \/ StartsWith(pathname, <<"/", "api", "/", "register">>)
  \/ StartsWith(pathname, <<"/", "api", "/", "logout">>)
  \/ StartsWith(pathname, <<"/", "api", "/", "cron">>)
  \/ StartsWith(pathname, <<"/", "api", "/", "server-config">>)

\* middleware.ts:95-107, middleware.ts:338-350, detail/route.ts:252-264
shouldSkipAuth(pathname) ==
  \E p \in { <<"/", "_next">>, <<"/", "favicon", ".ico">>, <<"/", "robots.txt">>,
             <<"/", "manifest", ".json">>, <<"/", "icons", "/">>,
             <<"/", "logo.png">>, <<"/", "screenshot.png">> } :
     StartsWith(pathname, p)

\* MatcherExclusions without the two pages the middlewares redirect to
MatcherExclusionsNoTargets ==
  { <<"_next", "/", "static">>, <<"_next", "/", "image">>, <<"favicon", ".ico">>,
    <<"api", "/", "login">>, <<"api", "/", "register">>,
    <<"api", "/", "logout">>, <<"api", "/", "cron">>, <<"api", "/", "server-config">> }

\* '/((?!_next/static|_next/image|favicon.ico|login|warning|api/login|
\*      api/register|api/logout|api/cron|api/server-config).*)'
MatcherExclusions ==
  { <<"_next", "/", "static">>, <<"_next", "/", "image">>, <<"favicon", ".ico">>,
    <<"login">>, <<"warning">>, <<"api", "/", "login">>, <<"api", "/", "register">>,
    <<"api", "/", "logout">>, <<"api", "/", "cron">>, <<"api", "/", "server-config">> }

\* part_000:248-252 adds robots.txt, manifest.json and icons/
MatcherExclusionsFresh ==
  MatcherExclusions \cup
    { <<"robots.txt">>, <<"manifest", ".json">>, <<"icons", "/">> }

\* the middleware runs on a path when the matcher's pattern matches it: a
\* leading "/" followed by a rest that starts with none of the exclusions
MatcherMatches(excl, pathname) ==
  /\ pathname # <<>>
  /\ Head(pathname) = "/"
  /\ ~ \E p \in excl : StartsWith(Tail(pathname), p)

Variants == {"verify", "fresh", "db", "status", "cache"}

Matches(variant, pathname) ==
  MatcherMatches(IF variant = "fresh" THEN MatcherExclusionsFresh ELSE MatcherExclusions,
                 pathname)

Skips(variant, pathname) ==
  CASE variant = "verify" -> shouldSkipAuthVerify(pathname)
    [] variant = "fresh" -> shouldSkip(pathname)
    [] OTHER -> shouldSkipAuth(pathname)

(***************************************************************************)
(* JavaScript values of the directory documents                            *)
(***************************************************************************)
JUndef == [t |-> "undefined", b |-> FALSE, n |-> 0, s |-> <<>>]
JBool(x) == [t |-> "boolean", b |-> x, n |-> 0, s |-> <<>>]
JNum(k) == [t |-> "number", b |-> FALSE, n |-> k, s |-> <<>>]
JStr(q) == [t |-> "string", b |-> FALSE, n |-> 0, s |-> q]

\* a ?? b
Coalesce(a, b) == IF a.t = "undefined" THEN b ELSE a

Truthy(v) ==
  CASE v.t = "boolean" -> v.b
    [] v.t = "number" -> v.n # 0
    [] v.t = "string" -> v.s # <<>>
    [] OTHER -> FALSE

\* String(v)
ToStr(v) ==
  CASE v.t = "string" -> v.s
    [] v.t = "boolean" -> IF v.b THEN <<"t", "r", "u", "e">> ELSE <<"f", "a", "l", "s", "e">>
    [] v.t = "number" -> IF v.n = 1 THEN <<"1">> ELSE <<"0">>
    [] OTHER -> <<"u", "n", "d", "e", "f", "i", "n", "e", "d">>

\* a user entry of a directory document; a field the entry lacks is JUndef
Entry(username, banned) ==
  [username |-> username, name |-> JUndef, userName |-> JUndef, role |-> JUndef,
   banned |-> banned, disabled |-> JUndef, status |-> JUndef]

\* a user list: an array of entries, undefined, or some other value
NoList == [kind |-> "undefined", items |-> <<>>]
Arr(items) == [kind |-> "array", items |-> items]
\* a user list that is a JSON object, and one that is a non-empty string
ObjList == [kind |-> "object", items |-> <<>>]
StrList == [kind |-> "string", items |-> <<>>]

\* l1 ?? l2 (for the lists of this model also l1 || l2: arrays are truthy)
CoalesceList(l1, l2) == IF l1.kind = "undefined" THEN l2 ELSE l1

RECURSIVE SelectSeq2(_, _)
\* Array.prototype.filter
SelectSeq2(s, keep) ==
  IF s = <<>> THEN <<>>
  ELSE IF keep[1] THEN <<Head(s)>> \o SelectSeq2(Tail(s), Tail(keep))
  ELSE SelectSeq2(Tail(s), Tail(keep))

BannedWords == { <<"t", "r", "u", "e">>, <<"b", "a", "n", "n", "e", "d">>,
                 <<"d", "i", "s", "a", "b", "l", "e", "d">> }

\* raw === true || raw === 1 || raw === '1' ||
\*   (typeof raw === 'string' && ['true','banned','disabled'].includes(raw.toLowerCase()))
CoerceBanned(raw) ==
  \/ raw = JBool(TRUE)
  \/ raw = JNum(1)
  \/ raw = JStr(<<"1">>)
  \/ (raw.t = "string" /\ ToLowerCase(raw.s) \in BannedWords)

\* auth/status/route.ts:69-84
sanitizeUsers(input) ==
  LET arr == IF input.kind = "array" THEN input.items ELSE <<>>
      mapped == [i \in 1..Len(arr) |->
                  LET u == arr[i]
                      username == Trim(ToStr(Coalesce(Coalesce(Coalesce(u.username, u.name),
                                                               u.userName), JStr(<<>>))))
                      raw == Coalesce(Coalesce(Coalesce(u.banned, u.disabled), u.status),
                                      JBool(FALSE))
                  IN [username |-> JStr(username), name |-> JUndef, userName |-> JUndef,
                      role |-> Coalesce(u.role, JUndef),
                      banned |-> JBool(CoerceBanned(raw)),
                      disabled |-> JUndef, status |-> JUndef]]
  IN SelectSeq2(mapped, [i \in 1..Len(mapped) |-> mapped[i].username.s # <<>>])

(***************************************************************************)
(* State                                                                   *)
(***************************************************************************)
VARIABLES
  call,         \* the function applied last on its own, its argument and result
  password,     \* process.env.PASSWORD ("" when not configured)
  storageEnv,   \* process.env.NEXT_PUBLIC_STORAGE_TYPE ("" when not set)
  dbUsers,      \* usernames the store holds (db.isUserExist, db.verifyUser)
  bannedUsers,  \* usernames whose entry of the admin configuration is banned
  now,          \* Date.now()
  ticks,        \* how often the clock advanced
  banCache,     \* detail/route.ts:101  let banCache
  banSince,     \* for each user, since when the directory has it banned (-1: not)
  procs,        \* requests of the "cache" middleware that await their fetch
  res           \* the last request handled and the response it got

vars == <<call, password, storageEnv, dbUsers, bannedUsers, now, ticks, banCache, banSince, procs, res>>

\* detail/route.ts:100
BAN_CACHE_TTL == 15000

UserA == <<"a">>
UserB == <<"b">>
Names == {UserA, UserB}
NameOrder == <<UserA, UserB>>

Secret == <<"p">>
WrongPassword == <<"q">>

\* process.env.NEXT_PUBLIC_STORAGE_TYPE || 'localstorage'
storageType == IF storageEnv = "" THEN "localstorage" ELSE storageEnv

(***************************************************************************)
(* The directory: store and admin configuration (lib/db, lib/config)       *)
(***************************************************************************)
\* UserConfig.Users of the admin configuration: one entry per user that the
\* store holds or that is banned (a ban entry can outlive the account)
ConfigUsers ==
  LET listed == [i \in 1..Len(NameOrder) |->
                   NameOrder[i] \in dbUsers \cup bannedUsers]
      all == [i \in 1..Len(NameOrder) |->
                Entry(JStr(NameOrder[i]), JBool(NameOrder[i] \in bannedUsers))]
  IN Arr(SelectSeq2(all, listed))

\* a JSON document with the three places a user list may be stored in
Doc(l1, l2, l3) == [UserConfigUsers |-> l1, Users |-> l2, users |-> l3]

\* getConfig() / db.getAdminConfig()
AdminConfig == Doc(ConfigUsers, NoList, NoList)

\* db.isUserExist(username) / db.checkUserExist(username)
isUserExist(username) == username \in dbUsers

\* the password a user of the store logs in with
UserPassword(username) == WrongPassword

\* db.verifyUser(username, password)
verifyUser(username, pw) == username \in dbUsers /\ pw = UserPassword(username)

\* Users.find((x) => x.username === username) and the truthiness of its banned
FoundBanned(list, username) ==
  LET idx == {i \in 1..Len(list.items) : list.items[i].username = JStr(username)}
  IN /\ list.kind = "array"
     /\ idx # {}
     /\ Truthy(list.items[CHOOSE i \in idx : \A j \in idx : i <= j].banned)

\* what can go wrong while one request is handled
\*   "store"   the store / configuration throws
\*   "network" the fetch itself fails
\*   "json"    the fetch answers 200 with a body that is not JSON
Faults == {"none", "store", "network", "json"}

(***************************************************************************)
(* Route handlers the middlewares fetch from                               *)
(***************************************************************************)
\* ServerConfigOf answering a failed getConfig() with an empty user list
ServerConfigOfEmptyOnFailure(cfg, fault) ==
  IF fault = "store"
    THEN [status |-> 200, json |-> TRUE, doc |-> Doc(Arr(<<>>), NoList, NoList)]
    ELSE LET rawUsers == CoalesceList(CoalesceList(CoalesceList(cfg.UserConfigUsers, cfg.Users),
                                                   cfg.users), Arr(<<>>))
         IN [status |-> 200, json |-> TRUE,
             doc |-> Doc(Arr(sanitizeUsers(rawUsers)), NoList, NoList)]

\* auth/status/route.ts:86-142  GET /api/server-config, for the
\* configuration cfg that getConfig() returns unless it throws
ServerConfigOf(cfg, fault) ==
  IF fault = "store"
    THEN [status |-> 503, json |-> TRUE, doc |-> Doc(NoList, NoList, NoList)]
    ELSE LET rawUsers == CoalesceList(CoalesceList(CoalesceList(cfg.UserConfigUsers, cfg.Users),
                                                   cfg.users), Arr(<<>>))
         IN [status |-> 200, json |-> TRUE,
             doc |-> Doc(Arr(sanitizeUsers(rawUsers)), NoList, NoList)]

ServerConfigGET(fault) == ServerConfigOf(AdminConfig, fault)

\* StatusGET with the banned flag looked at before the store
StatusGETBanFirst(username, fault) ==
  IF username = <<>> THEN 400
  ELSE IF fault = "store" THEN 500
  ELSE IF AdminConfig.UserConfigUsers.kind = "array"
          /\ FoundBanned(AdminConfig.UserConfigUsers, username) THEN 403
  ELSE IF ~isUserExist(username) THEN 404
  ELSE 200

\* StatusGET without the look at the banned flag
StatusGETNoBan(username, fault) ==
  IF username = <<>> THEN 400
  ELSE IF fault = "store" THEN 500
  ELSE IF ~isUserExist(username) THEN 404
  ELSE 200

\* auth/status/route.ts:13-54  GET /api/auth/status?username=
StatusGET(username, fault) ==
  IF username = <<>> THEN 400
  ELSE IF fault = "store" THEN 500
  ELSE IF ~isUserExist(username) THEN 404
  ELSE IF AdminConfig.UserConfigUsers.kind = "array"
          /\ FoundBanned(AdminConfig.UserConfigUsers, username) THEN 403
  ELSE 200

\* fetch('/api/server-config'): the matcher of every variant excludes the
\* path, so the handler answers directly
FetchServerConfig(fault) ==
  IF fault = "network"
    THEN [threw |-> TRUE, status |-> 0, json |-> FALSE, doc |-> Doc(NoList, NoList, NoList)]
    ELSE LET r == ServerConfigGET(fault)
         IN [threw |-> FALSE, status |-> r.status,
             json |-> IF fault = "json" THEN FALSE ELSE r.json, doc |-> r.doc]

\* the same fetch when getConfig() returns cfg
FetchServerConfigOf(cfg) ==
  LET r == ServerConfigOf(cfg, "none")
  IN [threw |-> FALSE, status |-> r.status, json |-> r.json, doc |-> r.doc]

\* res.ok
Ok(status) == status >= 200 /\ status <= 299

(***************************************************************************)
(* getBannedSet                                                            *)
(***************************************************************************)
NoSet == [threw |-> TRUE, set |-> {}]

\* part_000:165-195: every call fetches.  for...of throws on a value that
\* is not iterable and visits the characters of a string, which have no
\* username; LOWER throws on a name that is not a string
getBannedSetFresh(resp) ==
  IF resp.threw \/ ~Ok(resp.status) \/ ~resp.json THEN NoSet
  ELSE LET data == resp.doc
           users == CoalesceList(CoalesceList(CoalesceList(data.UserConfigUsers, data.Users),
                                              data.users), Arr(<<>>))
           nameOf(u) == Coalesce(Coalesce(u.username, u.name), u.userName)
           rawOf(u) == Coalesce(Coalesce(u.banned, u.disabled), u.status)
       IN IF users.kind = "string" THEN [threw |-> FALSE, set |-> {}]
          ELSE IF users.kind # "array" THEN NoSet
          ELSE IF \E i \in 1..Len(users.items) :
                    nameOf(users.items[i]).t \notin {"undefined", "string"} THEN NoSet
          ELSE [threw |-> FALSE,
                set |-> { LOWER(nameOf(users.items[i]).s) :
                           i \in { j \in 1..Len(users.items) :
                                     /\ LOWER(nameOf(users.items[j]).s) # <<>>
                                     /\ CoerceBanned(rawOf(users.items[j])) } }]

\* ParseBannedSet with a body that is not JSON read as an empty document
ParseBannedSetLenient(resp) ==
  IF resp.threw \/ ~Ok(resp.status) THEN NoSet
  ELSE LET data == IF resp.json THEN resp.doc ELSE Doc(NoList, NoList, NoList)
           users == CoalesceList(CoalesceList(CoalesceList(data.UserConfigUsers, data.Users),
                                              data.users), Arr(<<>>))
           nameOf(u) == Coalesce(Coalesce(u.username, u.name), u.userName)
           isBanned(u) == \/ u.banned = JBool(TRUE)
                          \/ u.disabled = JBool(TRUE)
                          \/ u.status = JStr(<<"b", "a", "n", "n", "e", "d">>)
       IN IF users.kind = "string" THEN [threw |-> FALSE, set |-> {}]
          ELSE IF users.kind # "array" THEN NoSet
          ELSE [threw |-> FALSE,
                set |-> { ToStr(nameOf(users.items[i])) :
                           i \in { j \in 1..Len(users.items) :
                                     /\ Truthy(nameOf(users.items[j]))
                                     /\ isBanned(users.items[j]) } }]

\* detail/route.ts:106-124: the part of getBannedSet after a stale cache
ParseBannedSet(resp) ==
  IF resp.threw \/ ~Ok(resp.status) \/ ~resp.json THEN NoSet
  ELSE LET data == resp.doc
           users == CoalesceList(CoalesceList(CoalesceList(data.UserConfigUsers, data.Users),
                                              data.users), Arr(<<>>))
           nameOf(u) == Coalesce(Coalesce(u.username, u.name), u.userName)
           isBanned(u) == \/ u.banned = JBool(TRUE)
                          \/ u.disabled = JBool(TRUE)
                          \/ u.status = JStr(<<"b", "a", "n", "n", "e", "d">>)
       IN IF users.kind = "string" THEN [threw |-> FALSE, set |-> {}]
          ELSE IF users.kind # "array" THEN NoSet
          ELSE [threw |-> FALSE,
                set |-> { ToStr(nameOf(users.items[i])) :
                           i \in { j \in 1..Len(users.items) :
                                     /\ Truthy(nameOf(users.items[j]))
                                     /\ isBanned(users.items[j]) } }]

NoCache == [present |-> FALSE, at |-> 0, set |-> {}]

\* CacheFresh with <= for <
CacheFreshInclusive(cache, t) == cache.present /\ t - cache.at <= BAN_CACHE_TTL

\* CacheFresh without the expiry
CacheFreshNoExpiry(cache, t) == cache.present

\* detail/route.ts:104  banCache && Date.now() - banCache.at < BAN_CACHE_TTL
CacheFresh(cache, t) == cache.present /\ t - cache.at < BAN_CACHE_TTL

(***************************************************************************)
(* Requests and responses                                                  *)
(***************************************************************************)
\* getAuthInfoFromCookie(request): null, or an object whose absent fields
\* are the empty string here (the code only tests them for falsiness or
\* compares them with a non-empty secret)
NoAuth == [present |-> FALSE, username |-> <<>>, password |-> <<>>, signature |-> <<>>]
Auth(u, pw, sig) == [present |-> TRUE, username |-> u, password |-> pw, signature |-> sig]

Request(path, auth) == [path |-> path, search |-> <<>>, host |-> <<"localhost">>, auth |-> auth]

Response(kind, status, location, error, redirect, deletes) ==
  [kind |-> kind, status |-> status, location |-> location, error |-> error,
   redirect |-> redirect, deletes |-> deletes]

\* NextResponse.next()
PassThrough == Response("next", 200, <<>>, "", <<>>, {})
\* NextResponse.redirect(new URL('/warning', request.url))
ToWarning == Response("redirect", 307, PathWarning, "", <<>>, {})

\* the directory lookup of one request: whether it supplied a ban set (got)
\* and which, whether it was tried and failed, how many fetches the request
\* issued, whether the set came from the cache (hit), and the status that
\* checkUserAuthorization saw (authz; 0: its fetch threw, -1: not called)
NoLookup ==
  [got |-> FALSE, set |-> {}, failed |-> FALSE, fetches |-> 0, hit |-> FALSE, authz |-> -1]
Lookup(got, set, fetches, hit) ==
  [got |-> got, set |-> set, failed |-> ~got, fetches |-> fetches, hit |-> hit, authz |-> -1]
FailedLookup ==
  [got |-> FALSE, set |-> {}, failed |-> TRUE, fetches |-> 0, hit |-> FALSE, authz |-> -1]

\* what the handling of one request amounts to: the response, the verdict of
\* the return statement that produced it, the reads and calls made in order,
\* and the ban set the directory lookup supplied
Out(resp, verdict, log, lookup) ==
  [resp |-> resp, verdict |-> verdict, log |-> log, lookup |-> lookup]

ReasonNoAuth == "No valid auth info or username found"
ReasonDeleted == "User is deleted"
ReasonBanned == "User is banned"
ReasonServer == "Server error during auth check"
ReasonMismatch == "Local storage password mismatch"
ReasonMissing == "Missing signature for non-localstorage mode"
ReasonBadSig == "Signature invalid or not found"
ReasonAuthZ == "User is deleted or banned (Authorization Failed)"

\* reason.includes(word) for the reasons the middlewares pass
Includes(reason, word) ==
  CASE word = "banned" -> reason \in {ReasonBanned, ReasonAuthZ}
    [] word = "deleted" -> reason \in {ReasonDeleted, ReasonAuthZ}
    [] word = "Authorization Failed" -> reason = ReasonAuthZ
    [] OTHER -> FALSE

VerdictOf(reason) ==
  CASE reason = ReasonDeleted -> "DenyDeleted"
    [] reason = ReasonBanned -> "DenyBanned"
    [] reason = ReasonServer -> "DenyConfigUnavailable"
    [] reason = ReasonBadSig -> "DenyInvalidSignature"
    [] reason = ReasonAuthZ -> "DenyDeletedOrBanned"
    [] OTHER -> "DenyUnauthenticated"

\* the page branch of middleware.ts:34-52 and middleware.ts:277-295
LoginRedirectWithReason(req, reason) ==
  Response("redirect", 307, PathLogin,
           IF Includes(reason, "banned") THEN "banned"
           ELSE IF Includes(reason, "deleted") THEN "deleted" ELSE "",
           req.path \o req.search, {"root"})

\* middleware.ts:20-53
handleAuthFailureDb(req, reason) ==
  IF IsApi(req.path)
    THEN Response("status",
                  IF Includes(reason, "banned") \/ Includes(reason, "forbidden") THEN 403 ELSE 401,
                  <<>>, "", <<>>, {})
    ELSE LoginRedirectWithReason(req, reason)

\* middleware.ts:264-296
handleAuthFailureStatus(req, reason) ==
  IF IsApi(req.path)
    THEN Response("status",
                  IF \/ Includes(reason, "banned")
                     \/ Includes(reason, "forbidden")
                     \/ Includes(reason, "Authorization Failed") THEN 403 ELSE 401,
                  <<>>, "", <<>>, {})
    ELSE LoginRedirectWithReason(req, reason)

\* detail/route.ts:237-249
handleAuthFailure(req) ==
  IF IsApi(req.path)
    THEN Response("status", 401, <<>>, "", <<>>, {})
    ELSE Response("redirect", 307, PathLogin, "", req.path \o req.search, {})

\* detail/route.ts:129-136
killAuthAndBlock(req) ==
  IF IsApi(req.path)
    THEN Response("status", 403, <<>>, "", <<>>, {"root"})
    ELSE Response("redirect", 307, PathLogin, "", <<>>, {"root"})

\* part_000:66-69
redirectToLogin(req) == Response("redirect", 307, PathLogin, "", <<>>, {})

\* part_000:74-86
logoutAndBlock(req, to) == Response("redirect", 307, to, "", <<>>, {"root"})

\* part_000:127-135: host.includes('.')
clearAuth(req) ==
  {"root"} \cup (IF \E i \in 1..Len(req.host) : req.host[i] = "." THEN {"host"} ELSE {})

\* part_000:137-143
block(req) ==
  IF IsApi(req.path)
    THEN Response("status", 403, <<>>, "", <<>>, clearAuth(req))
    ELSE Response("redirect", 307, PathLogin, "", <<>>, clearAuth(req))

\* the usernames a user list reports as banned to a lookup by find()
BannedNames(list) ==
  IF list.kind # "array" THEN {}
  ELSE { ToStr(list.items[i].username) :
           i \in { j \in 1..Len(list.items) :
                     FoundBanned(list, ToStr(list.items[j].username)) } }

(***************************************************************************)
(* The middlewares                                                         *)
(***************************************************************************)
\* part_000:15-61
MiddlewareVerify(req, fault) ==
  LET auth == req.auth
      cfg == AdminConfig
      seen == Lookup(TRUE, BannedNames(cfg.UserConfigUsers), 0, FALSE)
  IN IF shouldSkipAuthVerify(req.path) THEN Out(PassThrough, "Allow", <<>>, NoLookup)
     ELSE IF ~auth.present \/ auth.username = <<>>
       THEN Out(redirectToLogin(req), "DenyUnauthenticated", <<"cookie">>, NoLookup)
     ELSE IF fault = "store"
       THEN Out(logoutAndBlock(req, PathLogin), "DenyConfigUnavailable",
                <<"cookie", "getConfig">>, FailedLookup)
     ELSE IF FoundBanned(cfg.UserConfigUsers, auth.username)
       THEN Out(logoutAndBlock(req, PathLogin), "DenyBanned", <<"cookie", "getConfig">>, seen)
     ELSE IF storageType \in {"d1", "redis", "upstash"}
       THEN IF ~verifyUser(auth.username, auth.password)
              THEN Out(logoutAndBlock(req, PathLogin), "DenyNotVerified",
                       <<"cookie", "getConfig", "db.verifyUser">>, seen)
              ELSE Out(PassThrough, "Allow", <<"cookie", "getConfig", "db.verifyUser">>, seen)
     ELSE Out(PassThrough, "Allow", <<"cookie", "getConfig">>, seen)

\* part_000:197-245 (verifySignature comes from lib/auth; the three copies
\* under src/ are identical and stand for it), resp being what the fetch of
\* getBannedSet comes back with
MiddlewareFreshOn(req, resp) ==
  LET auth == req.auth
      got == getBannedSetFresh(resp)
      seen == Lookup(~got.threw, got.set, 1, FALSE)
      pre == <<"env.PASSWORD", "cookie">>
  IN IF shouldSkip(req.path) THEN Out(PassThrough, "Allow", <<>>, NoLookup)
     ELSE IF password = <<>>
       THEN Out(ToWarning, "DenyConfigUnavailable", <<"env.PASSWORD">>, NoLookup)
     ELSE IF ~auth.present THEN Out(block(req), "DenyUnauthenticated", pre, NoLookup)
     ELSE IF storageType = "localstorage"
       THEN IF auth.password # password
              THEN Out(block(req), "DenyUnauthenticated", pre, NoLookup)
            ELSE IF auth.username # <<>>
              THEN IF got.threw
                     THEN Out(block(req), "DenyConfigUnavailable", pre \o <<"fetch">>, seen)
                   ELSE IF LOWER(auth.username) \in got.set
                     THEN Out(block(req), "DenyBanned", pre \o <<"fetch">>, seen)
                   ELSE Out(PassThrough, "Allow", pre \o <<"fetch">>, seen)
            ELSE Out(PassThrough, "Allow", pre, NoLookup)
     ELSE IF auth.username = <<>> \/ auth.signature = <<>>
       THEN Out(block(req), "DenyUnauthenticated", pre, NoLookup)
     ELSE IF ~verifySignature(auth.username, auth.signature, password)
       THEN Out(block(req), "DenyInvalidSignature", pre \o <<"verifySignature">>, NoLookup)
     ELSE IF got.threw
       THEN Out(block(req), "DenyConfigUnavailable", pre \o <<"verifySignature", "fetch">>, seen)
     ELSE IF LOWER(auth.username) \in got.set
       THEN Out(block(req), "DenyBanned", pre \o <<"verifySignature", "fetch">>, seen)
     ELSE Out(PassThrough, "Allow", pre \o <<"verifySignature", "fetch">>, seen)

MiddlewareFresh(req, fault) == MiddlewareFreshOn(req, FetchServerConfig(fault))

\* middleware.ts:164-191 and middleware.ts:387-414, the part both middlewares
\* of middleware.ts share after the authorization check: password or
\* signature; each fails through its own handleAuthFailure
Authenticate(req, variant, log, seen) ==
  LET auth == req.auth
      fail(reason) == IF variant = "db" THEN handleAuthFailureDb(req, reason)
                      ELSE handleAuthFailureStatus(req, reason)
  IN IF storageType = "localstorage"
       THEN IF auth.password = <<>> \/ auth.password # password
              THEN Out(fail(ReasonMismatch), VerdictOf(ReasonMismatch), log, seen)
              ELSE Out(PassThrough, "Allow", log, seen)
     ELSE IF auth.signature = <<>>
       THEN Out(fail(ReasonMissing), VerdictOf(ReasonMissing), log, seen)
     ELSE IF verifySignature(auth.username, auth.signature, password)
       THEN Out(PassThrough, "Allow", log \o <<"verifySignature">>, seen)
     ELSE Out(fail(ReasonBadSig), VerdictOf(ReasonBadSig), log \o <<"verifySignature">>, seen)

\* middleware.ts:114-192
MiddlewareDb(req, fault) ==
  LET auth == req.auth
      cfg == AdminConfig
      pre == <<"env.PASSWORD", "cookie">>
      seen == Lookup(TRUE, BannedNames(cfg.UserConfigUsers), 0, FALSE)
      deny(reason, log, lk) == Out(handleAuthFailureDb(req, reason), VerdictOf(reason), log, lk)
  IN IF shouldSkipAuth(req.path) THEN Out(PassThrough, "Allow", <<>>, NoLookup)
     ELSE IF password = <<>>
       THEN Out(ToWarning, "DenyConfigUnavailable", <<"env.PASSWORD">>, NoLookup)
     ELSE IF ~auth.present \/ auth.username = <<>> THEN deny(ReasonNoAuth, pre, NoLookup)
     ELSE IF fault = "store" THEN deny(ReasonServer, pre \o <<"db.isUserExist">>, FailedLookup)
     ELSE IF ~isUserExist(auth.username)
       THEN deny(ReasonDeleted, pre \o <<"db.isUserExist">>, NoLookup)
     ELSE IF cfg.UserConfigUsers.kind = "array" /\ FoundBanned(cfg.UserConfigUsers, auth.username)
       THEN deny(ReasonBanned, pre \o <<"db.isUserExist", "db.getAdminConfig">>, seen)
     ELSE Authenticate(req, "db",
                       pre \o <<"db.isUserExist", "db.getAdminConfig">>, seen)

\* the path a variant fetches to learn about the user: /api/auth/status
\* (middleware.ts:229) or /api/server-config (part_000:166, detail/route.ts:106)
LookupEndpoint(variant) ==
  IF variant = "status" THEN PathApiStatus ELSE PathApiServerConfig

\* what the platform does with a fetch a middleware sends to its own
\* deployment: the sub-request runs the middleware again until `limit' nested
\* runs are under way; then the platform either hands the sub-request to the
\* route without the middleware (the x-middleware-subrequest guard of
\* Next.js) or refuses it
Platforms == { [limit |-> n, atLimit |-> a] : n \in 0..MaxDepth, a \in {"pass", "refuse"} }

RECURSIVE MiddlewareStatus(_, _, _, _)
\* the fetch of middleware.ts:232-241: the matcher does not exclude
\* /api/auth/status, so the sub-request reaches the middleware before the
\* route.  The result is the status the fetch sees (0: the fetch threw).
StatusFetch(req, fault, plat, depth) ==
  IF fault = "network" THEN [status |-> 0, fetches |-> 1]
  ELSE IF Matches("status", PathApiStatus) /\ depth >= plat.limit /\ plat.atLimit = "refuse"
    THEN [status |-> 0, fetches |-> 1]
  ELSE LET sub == [req EXCEPT !.path = PathApiStatus]
           inner == IF Matches("status", PathApiStatus) /\ depth < plat.limit
                      THEN MiddlewareStatus(sub, fault, plat, depth + 1)
                      ELSE Out(PassThrough, "Allow", <<>>, NoLookup)
       IN IF inner.resp.kind = "next"
            THEN [status |-> StatusGET(req.auth.username, fault),
                  fetches |-> 1 + inner.lookup.fetches]
            ELSE [status |-> inner.resp.status, fetches |-> 1 + inner.lookup.fetches]

\* checkUserAuthorization that takes "the user is gone" (404) for a pass
checkUserAuthorizationLenient(req, fault, plat, depth) ==
  LET f == StatusFetch(req, fault, plat, depth)
  IN [ok |-> Ok(f.status) \/ f.status = 404, status |-> f.status, fetches |-> f.fetches]

\* middleware.ts:224-259
checkUserAuthorization(req, fault, plat, depth) ==
  LET f == StatusFetch(req, fault, plat, depth)
  IN [ok |-> Ok(f.status), status |-> f.status, fetches |-> f.fetches]

\* middleware.ts:357-415
MiddlewareStatus(req, fault, plat, depth) ==
  LET auth == req.auth
      pre == <<"env.PASSWORD", "cookie">>
      authz == checkUserAuthorization(req, fault, plat, depth)
      seen == [got |-> FALSE, set |-> {}, failed |-> authz.status \notin {200, 403, 404},
               fetches |-> authz.fetches, hit |-> FALSE, authz |-> authz.status]
      deny(reason, log, lk) == Out(handleAuthFailureStatus(req, reason), VerdictOf(reason), log, lk)
  IN IF shouldSkipAuth(req.path) THEN Out(PassThrough, "Allow", <<>>, NoLookup)
     ELSE IF password = <<>>
       THEN Out(ToWarning, "DenyConfigUnavailable", <<"env.PASSWORD">>, NoLookup)
     ELSE IF ~auth.present \/ auth.username = <<>> THEN deny(ReasonNoAuth, pre, NoLookup)
     ELSE IF ~authz.ok THEN deny(ReasonAuthZ, pre \o <<"fetch">>, seen)
     ELSE Authenticate(req, "status", pre \o <<"fetch">>, seen)

\* detail/route.ts:138-185: true when the middleware reaches getBannedSet
CacheReachesLookup(req) ==
  /\ ~shouldSkipAuth(req.path)
  /\ password # <<>>
  /\ req.auth.present
  /\ storageType # "localstorage"
  /\ req.auth.username # <<>>
  /\ req.auth.signature # <<>>
  /\ verifySignature(req.auth.username, req.auth.signature, password)

\* MiddlewareCacheLocal with the secret read before the skip list
MiddlewareCacheLocalSecretFirst(req) ==
  LET auth == req.auth
      pre == <<"env.PASSWORD", "cookie">>
  IN IF password = <<>>
       THEN Out(ToWarning, "DenyConfigUnavailable", <<"env.PASSWORD">>, NoLookup)
     ELSE IF shouldSkipAuth(req.path) THEN Out(PassThrough, "Allow", <<"env.PASSWORD">>, NoLookup)
     ELSE IF ~auth.present THEN Out(handleAuthFailure(req), "DenyUnauthenticated", pre, NoLookup)
     ELSE IF storageType = "localstorage"
       THEN IF auth.password = <<>> \/ auth.password # password
              THEN Out(handleAuthFailure(req), "DenyUnauthenticated", pre, NoLookup)
              ELSE Out(PassThrough, "Allow", pre, NoLookup)
     ELSE IF auth.username = <<>> \/ auth.signature = <<>>
       THEN Out(handleAuthFailure(req), "DenyUnauthenticated", pre, NoLookup)
     ELSE Out(handleAuthFailure(req), "DenyInvalidSignature",
              pre \o <<"verifySignature">>, NoLookup)

\* detail/route.ts:138-201, the returns that do not depend on getBannedSet
MiddlewareCacheLocal(req) ==
  LET auth == req.auth
      pre == <<"env.PASSWORD", "cookie">>
  IN IF shouldSkipAuth(req.path) THEN Out(PassThrough, "Allow", <<>>, NoLookup)
     ELSE IF password = <<>>
       THEN Out(ToWarning, "DenyConfigUnavailable", <<"env.PASSWORD">>, NoLookup)
     ELSE IF ~auth.present THEN Out(handleAuthFailure(req), "DenyUnauthenticated", pre, NoLookup)
     ELSE IF storageType = "localstorage"
       THEN IF auth.password = <<>> \/ auth.password # password
              THEN Out(handleAuthFailure(req), "DenyUnauthenticated", pre, NoLookup)
              ELSE Out(PassThrough, "Allow", pre, NoLookup)
     ELSE IF auth.username = <<>> \/ auth.signature = <<>>
       THEN Out(handleAuthFailure(req), "DenyUnauthenticated", pre, NoLookup)
     ELSE Out(handleAuthFailure(req), "DenyInvalidSignature",
              pre \o <<"verifySignature">>, NoLookup)

\* MiddlewareCacheVerdict without the bannedSet.has() test
MiddlewareCacheVerdictNoBan(req, got, fetches, hit) ==
  Out(PassThrough, "Allow",
      <<"env.PASSWORD", "cookie", "verifySignature">> \o (IF fetches > 0 THEN <<"fetch">> ELSE <<>>),
      Lookup(~got.threw, got.set, fetches, hit))

\* detail/route.ts:185-196: the verdict once getBannedSet returned or threw
\* (the catch block is empty: a failed lookup falls through to next())
MiddlewareCacheVerdict(req, got, fetches, hit) ==
  LET log == <<"env.PASSWORD", "cookie", "verifySignature">> \o
               (IF fetches > 0 THEN <<"fetch">> ELSE <<>>)
      seen == Lookup(~got.threw, got.set, fetches, hit)
  IN IF ~got.threw /\ req.auth.username \in got.set
       THEN Out(killAuthAndBlock(req), "DenyBanned", log, seen)
       ELSE Out(PassThrough, "Allow", log, seen)

\* CacheAfter with the snapshot dropped by a refresh that fails
CacheAfterDropOnFailure(cache, got, t) ==
  IF got.threw THEN NoCache ELSE [present |-> TRUE, at |-> t, set |-> got.set]

\* detail/route.ts:125  banCache = { at: Date.now(), set }
CacheAfter(cache, got, t) ==
  IF got.threw THEN cache ELSE [present |-> TRUE, at |-> t, set |-> got.set]

(***************************************************************************)
(* Inputs                                                                  *)
(***************************************************************************)
\* one hex digit of a signature replaced by another hex digit
Flip(sig) == [sig EXCEPT ![1] = IF @ = "0" THEN "1" ELSE "0"]

Paths == {PathPlay, PathApiDetail, PathStatic, PathRobots, PathLogin}

Auths ==
  { NoAuth,
    Auth(<<>>, Secret, <<>>),
    Auth(<<>>, WrongPassword, <<>>),
    Auth(UserA, <<>>, <<>>),
    Auth(UserA, Secret, <<>>),
    Auth(UserA, <<>>, Sign(UserA, Secret)),
    Auth(UserA, <<>>, Flip(Sign(UserA, Secret))),
    Auth(UserA, WrongPassword, Sign(UserA, Secret)),
    Auth(UserB, <<>>, Sign(UserB, Secret)) }

\* request.nextUrl.search of a request with a query string
Query == <<"?", "id=1">>

WithSearch(req, search) == [req EXCEPT !.search = search]

\* request.nextUrl.hostname: a name without a dot, an IP address, a site
HostLocal == <<"localhost">>
HostIp == <<"127", ".", "0", ".", "0", ".", "1">>
HostSite == <<"app", ".", "example", ".", "com">>

WithHost(req, host) == [req EXCEPT !.host = host]

\* pages and assets that only some of the skip lists and matchers name
EdgePaths == {PathWarning, PathRegister, PathLogo}

Requests ==
  { Request(p, a) : p \in Paths, a \in Auths }
    \cup { WithSearch(Request(PathPlay, a), Query) : a \in Auths }
    \cup { Request(p, a) : p \in EdgePaths,
                           a \in {NoAuth, Auth(UserA, <<>>, Sign(UserA, Secret))} }
    \cup { WithHost(Request(p, NoAuth), h) : p \in {PathPlay, PathApiDetail},
                                             h \in {HostIp, HostSite} }

Procs == {1, 2}

NoResp == [threw |-> TRUE, status |-> 0, json |-> FALSE, doc |-> Doc(NoList, NoList, NoList)]

Idle == [pc |-> "idle", req |-> Request(PathHome, NoAuth), began |-> 0, cache |-> NoCache,
         resp |-> NoResp]

NoRes == [variant |-> "none", req |-> Request(PathHome, NoAuth), fault |-> "none",
          ran |-> FALSE, out |-> Out(PassThrough, "Allow", <<>>, NoLookup),
          began |-> 0, at |-> 0, cache |-> NoCache]

\* cache is banCache as the request found it (detail/route.ts:104)
Result(variant, req, fault, ran, out, began, cache) ==
  [variant |-> variant, req |-> req, fault |-> fault, ran |-> ran, out |-> out,
   began |-> began, at |-> now, cache |-> cache]

\* a path the matcher does not match never reaches the middleware
Unmatched == Out(PassThrough, "Allow", <<>>, NoLookup)

(***************************************************************************)
(* Actions                                                                 *)
(***************************************************************************)
\* res holds the response of the request handled last until it has left for
\* the client; nothing else happens in between
Quiet == res.variant = "none"

Frame == UNCHANGED <<call, password, storageEnv, dbUsers, bannedUsers, now, ticks, banSince, procs>>

HandleVerify(req, fault) ==
  /\ Quiet
  /\ res' = Result("verify", req, fault, Matches("verify", req.path),
                   IF Matches("verify", req.path) THEN MiddlewareVerify(req, fault)
                   ELSE Unmatched, now, banCache)
  /\ Frame /\ UNCHANGED banCache

HandleFresh(req, fault) ==
  /\ Quiet
  /\ res' = Result("fresh", req, fault, Matches("fresh", req.path),
                   IF Matches("fresh", req.path) THEN MiddlewareFresh(req, fault)
                   ELSE Unmatched, now, banCache)
  /\ Frame /\ UNCHANGED banCache

HandleDb(req, fault) ==
  /\ Quiet
  /\ res' = Result("db", req, fault, Matches("db", req.path),
                   IF Matches("db", req.path) THEN MiddlewareDb(req, fault)
                   ELSE Unmatched, now, banCache)
  /\ Frame /\ UNCHANGED banCache

HandleStatus(req, fault, plat) ==
  /\ Quiet
  /\ res' = Result("status", req, fault, Matches("status", req.path),
                   IF Matches("status", req.path) THEN MiddlewareStatus(req, fault, plat, 0)
                   ELSE Unmatched, now, banCache)
  /\ Frame /\ UNCHANGED banCache

\* detail/route.ts:138-201 with getBannedSet (103-127), no other request in
\* between; resp is what the fetch comes back with when it is made
HandleCacheOn(req, fault, resp) ==
  /\ Quiet
  /\ Frame
  /\ IF ~Matches("cache", req.path)
       THEN /\ res' = Result("cache", req, fault, FALSE, Unmatched, now, banCache)
            /\ UNCHANGED banCache
     ELSE IF ~CacheReachesLookup(req)
       THEN /\ res' = Result("cache", req, fault, TRUE, MiddlewareCacheLocal(req), now, banCache)
            /\ UNCHANGED banCache
     ELSE IF CacheFresh(banCache, now)
       THEN /\ res' = Result("cache", req, fault, TRUE,
                             MiddlewareCacheVerdict(req, [threw |-> FALSE, set |-> banCache.set],
                                                    0, TRUE), now, banCache)
            /\ UNCHANGED banCache
     ELSE LET got == ParseBannedSet(resp)
          IN /\ banCache' = CacheAfter(banCache, got, now)
             /\ res' = Result("cache", req, fault, TRUE,
                              MiddlewareCacheVerdict(req, got, 1, FALSE), now, banCache)

HandleCache(req, fault) == HandleCacheOn(req, fault, FetchServerConfig(fault))

\* the same middleware as its three steps around the awaited fetch, so that
\* requests interleave: up to the fetch call ...
CacheBegin(p, req) ==
  /\ Quiet
  /\ procs[p].pc = "idle"
  /\ Matches("cache", req.path)
  /\ UNCHANGED <<call, password, storageEnv, dbUsers, bannedUsers, now, ticks, banSince, banCache>>
  /\ IF ~CacheReachesLookup(req)
       THEN /\ res' = Result("cache", req, "none", TRUE, MiddlewareCacheLocal(req), now, banCache)
            /\ UNCHANGED procs
     ELSE IF CacheFresh(banCache, now)
       THEN /\ res' = Result("cache", req, "none", TRUE,
                             MiddlewareCacheVerdict(req, [threw |-> FALSE, set |-> banCache.set],
                                                    0, TRUE), now, banCache)
            /\ UNCHANGED procs
     ELSE /\ procs' = [procs EXCEPT ![p] = [pc |-> "fetching", req |-> req, began |-> now,
                                            cache |-> banCache, resp |-> NoResp]]
          /\ UNCHANGED res

\* ... the answer of /api/server-config, taken from the directory as it is
\* when the route handler runs ...
CacheServe(p, fault) ==
  /\ Quiet
  /\ procs[p].pc = "fetching"
  /\ procs' = [procs EXCEPT ![p].pc = "responded", ![p].resp = FetchServerConfig(fault)]
  /\ UNCHANGED <<call, password, storageEnv, dbUsers, bannedUsers, now, ticks, banSince, banCache, res>>

\* what went wrong with a response, as the middleware can tell
FaultOf(resp) ==
  IF resp.threw THEN "network"
  ELSE IF ~Ok(resp.status) THEN "store"
  ELSE IF ~resp.json THEN "json" ELSE "none"

\* CacheEnd with the snapshot stamped with the time the request began
CacheEndStampBegan(p) ==
  /\ Quiet
  /\ procs[p].pc = "responded"
  /\ LET got == ParseBannedSet(procs[p].resp)
         fault == FaultOf(procs[p].resp)
     IN /\ banCache' = CacheAfter(banCache, got, procs[p].began)
        /\ res' = Result("cache", procs[p].req, fault, TRUE,
                         MiddlewareCacheVerdict(procs[p].req, got, 1, FALSE),
                         procs[p].began, procs[p].cache)
  /\ procs' = [procs EXCEPT ![p] = Idle]
  /\ UNCHANGED <<call, password, storageEnv, dbUsers, bannedUsers, now, ticks, banSince>>

\* ... and from the arrival of the response to the return
CacheEnd(p) ==
  /\ Quiet
  /\ procs[p].pc = "responded"
  /\ LET got == ParseBannedSet(procs[p].resp)
         fault == FaultOf(procs[p].resp)
     IN /\ banCache' = CacheAfter(banCache, got, now)
        /\ res' = Result("cache", procs[p].req, fault, TRUE,
                         MiddlewareCacheVerdict(procs[p].req, got, 1, FALSE),
                         procs[p].began, procs[p].cache)
  /\ procs' = [procs EXCEPT ![p] = Idle]
  /\ UNCHANGED <<call, password, storageEnv, dbUsers, bannedUsers, now, ticks, banSince>>

\* a query string that carries the username parameter (or none)
SearchOf(username) == IF username = <<>> THEN <<>> ELSE <<"?username=">> \o username

\* request.nextUrl.searchParams.get('username'), the empty string for null
SearchParam(search) ==
  IF search # <<>> /\ Head(search) = "?username=" THEN Tail(search) ELSE <<>>

\* auth/status/route.ts:13-54 called by a client
HandleStatusRoute(username, fault) ==
  /\ Quiet
  /\ LET req == WithSearch(Request(PathApiStatus, NoAuth), SearchOf(username))
         code == StatusGET(SearchParam(req.search), fault)
     IN res' = Result("statusRoute", req, fault, TRUE,
                      Out(Response("status", code, <<>>, "", <<>>, {}), "", <<>>, NoLookup),
                      now, banCache)
  /\ Frame /\ UNCHANGED banCache

\* the query strings of /api/detail: the pieces are whole parameters
DetailSearches ==
  { <<>>, <<"?", "id=1", "&", "source=s">>, <<"?", "id=1/", "&", "source=s">>,
    <<"?", "id=1", "&", "source=x">>, <<"?", "source=s">> }

HasPiece(search, piece) == \E i \in 1..Len(search) : search[i] = piece

\* searchParams.get('id') and searchParams.get('source'), <<>> for null
ParamId(search) ==
  IF HasPiece(search, "id=1") THEN <<"1">>
  ELSE IF HasPiece(search, "id=1/") THEN <<"1", "/">>
  ELSE <<>>

ParamSource(search) ==
  IF HasPiece(search, "source=s") THEN <<"s">>
  ELSE IF HasPiece(search, "source=x") THEN <<"x">>
  ELSE <<>>

\* /^[\w-]+$/.test(id)
IdWellFormed(id) ==
  id # <<>> /\ \A i \in 1..Len(id) : id[i] \in {"0", "1", "a", "b", "s", "x", "_", "-"}

\* the keys of getAvailableApiSites()
ApiSiteKeys == { <<"s">> }

\* what can go wrong while /api/detail is served: getConfig throws ("store"),
\* db.verifyUser throws ("db"), getDetailFromApi throws ("upstream")
DetailFaults == {"none", "store", "db", "upstream"}

Answer(status, log) == [status |-> status, log |-> log]

\* DetailGET with the parameters validated before the caller is looked at
DetailGETParamsFirst(auth, search, fault) ==
  LET id == ParamId(search)
      sourceCode == ParamSource(search)
  IN IF ~auth.present \/ auth.username = <<>> THEN Answer(401, <<"cookie">>)
     ELSE IF id = <<>> \/ sourceCode = <<>> THEN Answer(400, <<"cookie">>)
     ELSE IF ~IdWellFormed(id) THEN Answer(400, <<"cookie">>)
     ELSE IF fault = "store" THEN Answer(500, <<"cookie", "getConfig">>)
     ELSE IF FoundBanned(AdminConfig.UserConfigUsers, auth.username)
       THEN Answer(403, <<"cookie", "getConfig">>)
     ELSE IF storageType \in {"d1", "redis", "upstash"} /\ fault = "db"
       THEN Answer(500, <<"cookie", "getConfig", "db.verifyUser">>)
     ELSE IF storageType \in {"d1", "redis", "upstash"}
               /\ ~verifyUser(auth.username, auth.password)
       THEN Answer(401, <<"cookie", "getConfig", "db.verifyUser">>)
     ELSE IF sourceCode \notin ApiSiteKeys
       THEN Answer(400, <<"cookie", "getConfig", "getAvailableApiSites">>)
     ELSE Answer(IF fault = "upstream" THEN 500 ELSE 200,
                 <<"cookie", "getConfig", "getAvailableApiSites", "getDetailFromApi">>)

\* detail/route.ts:15-85  GET /api/detail.  getConfig() is awaited outside
\* every try block: when it throws, the runtime answers 500.
DetailGET(auth, search, fault) ==
  LET id == ParamId(search)
      sourceCode == ParamSource(search)
      dbMode == storageType \in {"d1", "redis", "upstash"}
      pre == <<"cookie", "getConfig">> \o (IF dbMode THEN <<"db.verifyUser">> ELSE <<>>)
  IN IF ~auth.present \/ auth.username = <<>> THEN Answer(401, <<"cookie">>)
     ELSE IF fault = "store" THEN Answer(500, <<"cookie", "getConfig">>)
     ELSE IF FoundBanned(AdminConfig.UserConfigUsers, auth.username)
       THEN Answer(403, <<"cookie", "getConfig">>)
     ELSE IF dbMode /\ fault = "db" THEN Answer(500, pre)
     ELSE IF dbMode /\ ~verifyUser(auth.username, auth.password) THEN Answer(401, pre)
     ELSE IF id = <<>> \/ sourceCode = <<>> THEN Answer(400, pre)
     ELSE IF ~IdWellFormed(id) THEN Answer(400, pre)
     ELSE IF sourceCode \notin ApiSiteKeys THEN Answer(400, pre \o <<"getAvailableApiSites">>)
     ELSE Answer(IF fault = "upstream" THEN 500 ELSE 200,
                 pre \o <<"getAvailableApiSites", "getDetailFromApi">>)

\* detail/route.ts:15-85 called by a client
HandleDetailRoute(auth, search, fault) ==
  /\ Quiet
  /\ LET req == WithSearch(Request(PathApiDetail, auth), search)
         ans == DetailGET(req.auth, req.search, fault)
     IN res' = Result("detailRoute", req, fault, TRUE,
                      Out(Response("status", ans.status, <<>>, "", <<>>, {}), "", ans.log,
                          NoLookup),
                      now, banCache)
  /\ Frame /\ UNCHANGED banCache

\* the administrator, elsewhere
AdminBan(u) ==
  /\ Quiet
  /\ u \notin bannedUsers
  /\ bannedUsers' = bannedUsers \cup {u}
  /\ banSince' = [banSince EXCEPT ![u] = now]
  /\ UNCHANGED <<call, password, storageEnv, dbUsers, now, ticks, banCache, procs, res>>

AdminUnban(u) ==
  /\ Quiet
  /\ u \in bannedUsers
  /\ bannedUsers' = bannedUsers \ {u}
  /\ banSince' = [banSince EXCEPT ![u] = -1]
  /\ UNCHANGED <<call, password, storageEnv, dbUsers, now, ticks, banCache, procs, res>>

AdminDelete(u) ==
  /\ Quiet
  /\ u \in dbUsers
  /\ dbUsers' = dbUsers \ {u}
  /\ UNCHANGED <<call, password, storageEnv, bannedUsers, now, ticks, banCache, banSince, procs, res>>

AdminCreate(u) ==
  /\ Quiet
  /\ u \notin dbUsers
  /\ dbUsers' = dbUsers \cup {u}
  /\ UNCHANGED <<call, password, storageEnv, bannedUsers, now, ticks, banCache, banSince, procs, res>>

Deltas == {1, BAN_CACHE_TTL - 1}

Tick(d) ==
  /\ Quiet
  /\ ticks < MaxTicks
  /\ now' = now + d
  /\ ticks' = ticks + 1
  /\ UNCHANGED <<call, password, storageEnv, dbUsers, bannedUsers, banCache, banSince, procs, res>>

\* the response leaves for the client
Deliver ==
  /\ ~Quiet
  /\ res' = NoRes
  /\ UNCHANGED <<call, password, storageEnv, dbUsers, bannedUsers, now, ticks, banCache, banSince, procs>>


(***************************************************************************)
(* Functions applied on their own: directory entries and signatures        *)
(***************************************************************************)
NoCall == [fn |-> "none"]

\* a user entry as an administrator's configuration may spell it
DirEntry(username, banned, disabled, status) ==
  [username |-> username, name |-> JUndef, userName |-> JUndef, role |-> JUndef,
   banned |-> banned, disabled |-> disabled, status |-> status]

UpperA == <<"A">>
DirNames == {UserA, UpperA}

BanValues ==
  { JUndef, JBool(TRUE), JBool(FALSE), JNum(1), JNum(0), JStr(<<"1">>),
    JStr(<<"t", "r", "u", "e">>), JStr(<<"B", "a", "n", "n", "e", "d">>),
    JStr(<<"d", "i", "s", "a", "b", "l", "e", "d">>),
    JStr(<<"a", "c", "t", "i", "v", "e">>) }

DirEntries ==
  { DirEntry(JStr(n), b, d, s) : n \in DirNames, b \in BanValues, d \in BanValues,
                                 s \in BanValues }

\* requests with a valid credential for a name in either case
DirRequests == { Request(PathPlay, Auth(n, <<>>, Sign(n, Secret))) : n \in DirNames }

\* getConfig() returns a configuration with the one entry; the route
\* (auth/status/route.ts:100) passes its user list to sanitizeUsers
GetConfig(entry) ==
  /\ Quiet
  /\ call = NoCall
  /\ call' = [fn |-> "getConfig", entry |-> entry,
              cfg |-> Doc(Arr(<<entry>>), NoList, NoList),
              users |-> sanitizeUsers(Arr(<<entry>>))]
  /\ UNCHANGED <<password, storageEnv, dbUsers, bannedUsers, now, ticks, banCache, banSince, procs, res>>

\* the "fresh" middleware while getConfig() returns that configuration
HandleFreshDir(req) ==
  /\ Quiet
  /\ call.fn = "getConfig"
  /\ res' = Result("fresh", req, "none", Matches("fresh", req.path),
                   IF Matches("fresh", req.path)
                     THEN MiddlewareFreshOn(req, FetchServerConfigOf(call.cfg))
                     ELSE Unmatched, now, banCache)
  /\ Frame /\ UNCHANGED banCache

\* the "cache" middleware while getConfig() returns that configuration
HandleCacheDir(req) ==
  /\ call.fn = "getConfig"
  /\ HandleCacheOn(req, "none", FetchServerConfigOf(call.cfg))

\* user lists of every shape as a directory source may send them
NameEntries ==
  { [username |-> u, name |-> n, userName |-> JUndef, role |-> JUndef,
     banned |-> JBool(TRUE), disabled |-> JUndef, status |-> JUndef] :
      u \in {JUndef, JStr(<<>>), JStr(<<" ">>), JStr(UserA)},
      n \in {JUndef, JStr(<<" ">>), JStr(UpperA)} }

Named == DirEntry(JStr(UserB), JBool(TRUE), JUndef, JUndef)

UserLists ==
  {NoList, ObjList, StrList, Arr(<<>>)}
    \cup { Arr(<<e>>) : e \in NameEntries }
    \cup { Arr(<<e, Named>>) : e \in NameEntries }

\* a 200 answer with the JSON document doc
JsonAnswer(doc) == [threw |-> FALSE, status |-> 200, json |-> TRUE, doc |-> doc]

\* sanitizeUsers and the getBannedSet of part_000 on the same user list
Normalize(list) ==
  /\ Quiet
  /\ call = NoCall
  /\ call' = [fn |-> "normalize", list |-> list, users |-> sanitizeUsers(list),
              got |-> getBannedSetFresh(JsonAnswer(Doc(list, NoList, NoList)))]
  /\ UNCHANGED <<password, storageEnv, dbUsers, bannedUsers, now, ticks, banCache, banSince, procs, res>>

\* signatures a client may send for a credential minted as sign(u, s):
\* every piece "0y" spelled "yg"
Sloppy(sig) ==
  [i \in 1..Len(sig) |->
     IF i % 2 = 1 /\ i < Len(sig) /\ sig[i] = "0" THEN sig[i + 1]
     ELSE IF i % 2 = 0 /\ sig[i - 1] = "0" THEN "g"
     ELSE sig[i]]

DropLast(sig) == SubSeq(sig, 1, Len(sig) - 1)

\* the last piece without its first character
DropLead(sig) == SubSeq(sig, 1, Len(sig) - 2) \o <<sig[Len(sig)]>>

SignatureNames == {UserA, <<"b", "A">>, <<"B", "b">>}
SignSecrets == {Secret, WrongPassword}

SignaturesOf(good) ==
  { good, <<>>, DropLast(good), DropLead(good), Sloppy(good), [good EXCEPT ![1] = "g"],
    good \o <<"0">> }

Signatures == UNION { SignaturesOf(Sign(u, s)) : u \in SignatureNames, s \in SignSecrets }

\* verifySignature(data, signature, secret) on its own
Verify(data, signature, secret) ==
  /\ Quiet
  /\ call = NoCall
  /\ call' = [fn |-> "verifySignature", data |-> data, signature |-> signature,
              secret |-> secret, ret |-> verifySignature(data, signature, secret)]
  /\ UNCHANGED <<password, storageEnv, dbUsers, bannedUsers, now, ticks, banCache, banSince, procs, res>>

\* the result has been looked at
Return ==
  /\ Quiet
  /\ call # NoCall
  /\ call' = NoCall
  /\ UNCHANGED <<password, storageEnv, dbUsers, bannedUsers, now, ticks, banCache, banSince, procs, res>>

(***************************************************************************)
(* Specifications                                                          *)
(***************************************************************************)
InitCommon ==
  /\ call = NoCall
  /\ dbUsers = Names
  /\ bannedUsers = {}
  /\ now = 0
  /\ ticks = 0
  /\ banCache = NoCache
  /\ banSince = [u \in Names |-> -1]
  /\ procs = [p \in Procs |-> Idle]
  /\ res = NoRes

\* every deployment: with or without a secret, in either mode
Init ==
  /\ password \in {<<>>, Secret}
  /\ storageEnv \in {"", "d1", "kvrocks"}
  /\ InitCommon

Next ==
  \/ \E req \in Requests, fault \in Faults : HandleVerify(req, fault)
  \/ \E req \in Requests, fault \in Faults : HandleFresh(req, fault)
  \/ \E req \in Requests, fault \in Faults : HandleDb(req, fault)
  \/ \E req \in Requests, fault \in Faults, plat \in Platforms : HandleStatus(req, fault, plat)
  \/ \E req \in Requests, fault \in Faults : HandleCache(req, fault)
  \/ \E u \in {<<>>} \cup Names, fault \in {"none", "store"} : HandleStatusRoute(u, fault)
  \/ \E auth \in Auths, search \in DetailSearches, fault \in DetailFaults :
       HandleDetailRoute(auth, search, fault)
  \/ AdminBan(UserA)
  \/ AdminUnban(UserA)
  \/ AdminDelete(UserA)
  \/ AdminCreate(UserA)
  \/ Deliver

Spec == Init /\ [][Next]_vars

\* a multi-user deployment of the "cache" middleware under concurrent
\* requests and a moving clock
CacheRequests ==
  { Request(PathPlay, Auth(UserA, <<>>, Sign(UserA, Secret))),
    Request(PathApiDetail, Auth(UserB, <<>>, Sign(UserB, Secret))) }

InitCache ==
  /\ password = Secret
  /\ storageEnv = "d1"
  /\ InitCommon

NextCache ==
  \/ \E p \in Procs, req \in CacheRequests : CacheBegin(p, req)
  \/ \E p \in Procs, fault \in {"none", "network"} : CacheServe(p, fault)
  \/ \E p \in Procs : CacheEnd(p)
  \/ AdminBan(UserA)
  \/ AdminUnban(UserA)
  \/ \E d \in Deltas : Tick(d)
  \/ Deliver

SpecCache == InitCache /\ [][NextCache]_vars

\* the same deployment with the scheduling the runtime guarantees: the code
\* after an await runs once the awaited fetch has settled, and a finished
\* response leaves.  Nothing obliges /api/server-config to answer, and the
\* fetch of detail/route.ts:107 passes no signal and no timeout.
SpecCacheLive ==
  /\ InitCache
  /\ [][NextCache]_vars
  /\ WF_vars(Deliver)
  /\ \A p \in Procs : WF_vars(CacheEnd(p))

\* one request at a time against a directory source that may fail in every
\* way: the "cache" middleware in its three steps and the "fresh" middleware
NextFaults ==
  \/ \E req \in CacheRequests : CacheBegin(1, req)
  \/ \E fault \in Faults : CacheServe(1, fault)
  \/ CacheEnd(1)
  \/ \E req \in CacheRequests, fault \in Faults : HandleFresh(req, fault)
  \/ AdminBan(UserA)
  \/ AdminUnban(UserA)
  \/ \E d \in Deltas : Tick(d)
  \/ Deliver

SpecFaults == InitCache /\ [][NextFaults]_vars

\* concurrent requests against a directory in which bans are only added, so
\* that of two directory states the one with fewer bans is the older one
NextRace ==
  \/ \E p \in Procs, req \in CacheRequests : CacheBegin(p, req)
  \/ \E p \in Procs, fault \in {"none", "network"} : CacheServe(p, fault)
  \/ \E p \in Procs : CacheEnd(p)
  \/ \E u \in Names : AdminBan(u)
  \/ Deliver

SpecRace == InitCache /\ [][NextRace]_vars

\* functions applied on their own to inputs of every shape, and the two
\* middlewares that fetch /api/server-config over a one-entry configuration
NextPure ==
  \/ \E entry \in DirEntries : GetConfig(entry)
  \/ \E list \in UserLists : Normalize(list)
  \/ \E req \in DirRequests : HandleFreshDir(req)
  \/ \E req \in DirRequests : HandleCacheDir(req)
  \/ \E data \in SignatureNames, signature \in Signatures, secret \in SignSecrets \cup {<<>>} :
       Verify(data, signature, secret)
  \/ Return
  \/ Deliver

SpecPure == InitCache /\ [][NextPure]_vars

(***************************************************************************)
(* Vocabulary of the properties                                            *)
(***************************************************************************)
\* a middleware handled the request
Handled == res.variant \in Variants
Allowed == res.out.resp.kind = "next"
MultiUser == storageType # "localstorage"
\* the request reached the pipeline: the matcher matched and the skip list
\* of the variant does not hold the path
NonExempt == res.ran /\ ~Skips(res.variant, res.req.path)
ValidSignature ==
  /\ res.req.auth.present
  /\ res.req.auth.username # <<>>
  /\ res.req.auth.signature # <<>>
  /\ verifySignature(res.req.auth.username, res.req.auth.signature, password)

ReachedLookup == res.out.lookup.got \/ res.out.lookup.failed

(***************************************************************************)
(* Properties of the five middlewares (Spec)                               *)
(***************************************************************************)
\* C1: in multi-user mode a non-exempt request proceeds to the application
\* only if its cookie carries a username and a signature that verifies as
\* the HMAC of the username under the secret, whatever the variant.
\* (Fails: the "verify" middleware never looks at the signature.)
C1_AllowOnlyVerified ==
  (Handled /\ MultiUser /\ NonExempt /\ Allowed) => ValidSignature

\* C2: in single-shared-secret mode a non-exempt request whose cookie
\* password is absent or differs from the secret is never allowed, whatever
\* the variant.  (Fails: the "verify" middleware never compares a password
\* in this mode.)
C2_WrongPasswordDenied ==
  (/\ Handled
   /\ ~MultiUser
   /\ NonExempt
   /\ (res.req.auth.password = <<>> \/ res.req.auth.password # password))
    => ~Allowed

\* C3: in multi-user mode a request with a valid signature whose username is
\* in the ban set that the directory lookup supplied for this request is
\* denied as banned and does not proceed.
C3_BannedDenied ==
  (/\ Handled
   /\ MultiUser
   /\ NonExempt
   /\ ValidSignature
   /\ res.out.lookup.got
   /\ res.req.auth.username \in res.out.lookup.set)
    => (~Allowed /\ res.out.verdict = "DenyBanned")

C3_Witness ==
  /\ Handled
  /\ res.variant = "cache"
  /\ MultiUser
  /\ NonExempt
  /\ ValidSignature
  /\ res.out.lookup.got
  /\ res.req.auth.username \in res.out.lookup.set
  /\ res.out.verdict = "DenyBanned"
  /\ res.out.resp.kind = "redirect"

\* the verdicts by which a variant says that the account is gone
GoneVerdicts == {"DenyDeleted", "DenyDeletedOrBanned", "DenyNotVerified"}

\* C4: in multi-user mode a request with a valid signature for a username
\* the directory no longer holds is denied as deleted and never allowed, in
\* every variant.  (Fails: "cache" and "fresh" only consult the ban set, and
\* "verify" checks the store only for d1, redis and upstash.)
C4_DeletedDenied ==
  (/\ Handled
   /\ MultiUser
   /\ NonExempt
   /\ ValidSignature
   /\ res.fault = "none"
   /\ res.req.auth.username \notin dbUsers
   /\ res.req.auth.username \notin bannedUsers)
    => (~Allowed /\ res.out.verdict \in GoneVerdicts)

\* the verdicts by which a variant says that the directory gave no answer
UnavailableVerdicts == {"DenyConfigUnavailable", "DenyDeletedOrBanned"}

\* C5: when the directory lookup of a multi-user request fails and no
\* snapshot exists, the request is denied (DenyConfigUnavailable) and never
\* allowed, valid signature or not.  (Fails: the catch block of the "cache"
\* middleware is empty and falls through to next().)
C5_FailClosed ==
  (/\ Handled
   /\ MultiUser
   /\ NonExempt
   /\ res.out.lookup.failed
   /\ ~res.cache.present)
    => (~Allowed /\ res.out.verdict \in UnavailableVerdicts)

\* C10: a request to an exempt path is passed through whatever its cookie,
\* before the secret, the cookie or the directory is read and without a
\* fetch.
C10_ExemptUntouched ==
  (Handled /\ ~NonExempt)
    => (/\ Allowed
        /\ res.out.log = <<>>
        /\ res.out.lookup.fetches = 0
        /\ ~ReachedLookup)

\* the middleware ran on /robots.txt without a cookie and skipped it
C10_Witness ==
  /\ Handled
  /\ res.variant = "cache"
  /\ res.ran
  /\ res.req.path = PathRobots
  /\ ~res.req.auth.present
  /\ password = <<>>
  /\ Allowed

(***************************************************************************)
(* Properties of the ban cache under concurrency (SpecCache)               *)
(***************************************************************************)
\* C6: when the cache holds a snapshot and the refresh fails, the verdict
\* still comes from that snapshot: a user it lists as banned is denied.
\* (Fails: getBannedSet throws past the stale snapshot and the middleware
\* lets the request through.)
C6_ServeStale ==
  (/\ Handled
   /\ res.variant = "cache"
   /\ res.out.lookup.failed
   /\ res.cache.present
   /\ res.req.auth.username \in res.cache.set)
    => ~Allowed

\* C7: a user the directory has had banned for a TTL or longer when the
\* request begins is denied, unless the lookup of the request failed,
\* whatever the interleaving of requests and refreshes.  (Fails: the
\* snapshot is stamped when the response arrives, not when the directory
\* was read, so an old answer enters the cache as new.)
C7_BoundedStaleness ==
  (/\ Handled
   /\ res.variant = "cache"
   /\ res.out.lookup.got
   /\ banSince[res.req.auth.username] >= 0
   /\ res.began >= banSince[res.req.auth.username] + BAN_CACHE_TTL)
    => ~Allowed

\* C8: a lookup that finds a snapshot younger than the TTL issues no fetch
\* and returns the cached set; one that finds a snapshot of age TTL or more
\* issues exactly one fetch.
C8_Freshness ==
  (Handled /\ res.variant = "cache" /\ ReachedLookup /\ res.cache.present)
    => IF res.began - res.cache.at < BAN_CACHE_TTL
         THEN /\ res.out.lookup.fetches = 0
              /\ res.out.lookup.hit
              /\ res.out.lookup.set = res.cache.set
         ELSE /\ res.out.lookup.fetches = 1
              /\ ~res.out.lookup.hit

\* a lookup exactly one TTL after the refresh fetched once
C8_Witness ==
  /\ Handled
  /\ res.variant = "cache"
  /\ res.cache.present
  /\ res.began - res.cache.at = BAN_CACHE_TTL
  /\ res.out.lookup.fetches = 1
  /\ res.out.lookup.got

\* C9: a verdict is computed from the cached snapshot only while it is
\* younger than the TTL; any other ban set a verdict uses was fetched by
\* the request itself and is the snapshot the cache now holds.
C9_NoExpiredSnapshot ==
  (Handled /\ res.variant = "cache" /\ res.out.lookup.got)
    => IF res.out.lookup.hit
         THEN /\ res.cache.present
              /\ res.at - res.cache.at < BAN_CACHE_TTL
              /\ res.out.lookup.set = res.cache.set
         ELSE /\ res.out.lookup.fetches = 1
              /\ banCache = [present |-> TRUE, at |-> res.at, set |-> res.out.lookup.set]

\* a verdict from a snapshot one millisecond short of the TTL
C9_Witness ==
  /\ Handled
  /\ res.variant = "cache"
  /\ res.out.lookup.hit
  /\ res.at - res.cache.at = BAN_CACHE_TTL - 1
  /\ res.out.verdict = "DenyBanned"

(***************************************************************************)
(* Properties of the decision order and the deny responses (Spec)          *)
(***************************************************************************)
\* the calls by which a middleware asks the directory
LookupCalls == {"getConfig", "db.verifyUser", "db.isUserExist", "db.getAdminConfig", "fetch"}

LogHas(calls) == \E i \in 1..Len(res.out.log) : res.out.log[i] \in calls

\* C11: without a configured secret every non-exempt request, whatever its
\* cookie, is redirected to /warning and never allowed, and the secret is
\* tested before the cookie is decoded and before any directory lookup, in
\* every variant.  (Fails: the "verify" middleware never reads the secret.)
C11_NoSecretWarning ==
  (Handled /\ NonExempt /\ password = <<>>)
    => (/\ ~Allowed
        /\ res.out.resp = ToWarning
        /\ res.out.log = <<"env.PASSWORD">>
        /\ ~ReachedLookup
        /\ res.out.lookup.fetches = 0)

\* C12: in single-shared-secret mode a request whose cookie password equals
\* the configured secret is allowed, and no existence or ban lookup is made
\* for it, whether or not the cookie names a user and whatever the directory
\* says about that user.  (Fails: "db", "status" and "verify" demand a
\* username and ask the directory first; "fresh" asks for the ban set when
\* the cookie names a user.)
C12_SharedSecretAllowed ==
  (/\ Handled
   /\ ~MultiUser
   /\ NonExempt
   /\ password # <<>>
   /\ res.req.auth.present
   /\ res.req.auth.password = password)
    => (/\ Allowed
        /\ ~ReachedLookup
        /\ ~LogHas(LookupCalls)
        /\ res.out.lookup.fetches = 0)

\* C13: the path a middleware fetches for existence and ban status is exempt
\* from that middleware (the matcher does not match it or the skip list
\* holds it), so one inbound request makes at most one fetch and the
\* middleware never runs again on its own fetch.  (Fails: neither the matcher
\* nor the skip list of the "status" middleware holds /api/auth/status.)
C13_NoReentry ==
  (Handled /\ res.out.lookup.fetches > 0)
    => (/\ (~Matches(res.variant, LookupEndpoint(res.variant))
            \/ Skips(res.variant, LookupEndpoint(res.variant)))
        /\ res.out.lookup.fetches = 1)

\* C14: every response by which a middleware denies a request, page or API,
\* tells the client to delete the 'auth' cookie.  (The redirect to /warning
\* of a deployment without a secret is left out here.)  (Fails: the API
\* branch of handleAuthFailure in "db" and "status", handleAuthFailure of
\* "cache" and redirectToLogin of "verify" set no cookie.)
C14_DenyDeletesCookie ==
  (Handled /\ res.ran /\ password # <<>> /\ ~Allowed)
    => res.out.resp.deletes # {}

\* C15: the response that denies an API request (path under /api) is a plain
\* status response whose code follows from the verdict: 401 when the
\* credential is absent or garbled or the signature is invalid, 403 when the
\* user is banned or deleted or the directory gave no answer.  (Fails: "db"
\* answers 401 for a deleted user and for a failed store, "fresh" answers 403
\* for every denial, "verify" redirects API requests.)
C15_ApiStatusByVerdict ==
  (Handled /\ res.ran /\ password # <<>> /\ IsApi(res.req.path) /\ ~Allowed)
    => (/\ res.out.resp.kind = "status"
        /\ res.out.resp.status =
             IF res.out.verdict \in {"DenyUnauthenticated", "DenyInvalidSignature"}
               THEN 401 ELSE 403)

\* the reason code the cause of a denial calls for; the "status" middleware
\* has one verdict for deleted, banned and unreachable, told apart here by
\* what the directory holds
ExpectedError ==
  LET u == res.req.auth.username
  IN CASE res.out.verdict = "DenyBanned" -> "banned"
       [] res.out.verdict = "DenyDeleted" -> "deleted"
       [] res.out.verdict = "DenyDeletedOrBanned" ->
            IF res.fault # "none" THEN ""
            ELSE IF u \notin dbUsers THEN "deleted"
            ELSE IF u \in bannedUsers THEN "banned" ELSE ""
       [] OTHER -> ""

\* C16: the response that denies a page request is a redirect to /login whose
\* 'redirect' parameter is the original path followed by the query string and
\* whose 'error' parameter is 'banned' exactly when the user is banned,
\* 'deleted' exactly when the user no longer exists, and absent otherwise.
\* (Fails: "status" says 'banned' for every failed authorization, deleted
\* users included; killAuthAndBlock of "cache", block of "fresh" and the
\* redirects of "verify" carry no parameter at all.)
C16_LoginRedirect ==
  (Handled /\ res.ran /\ password # <<>> /\ ~IsApi(res.req.path) /\ ~Allowed)
    => (/\ res.out.resp.kind = "redirect"
        /\ res.out.resp.location = PathLogin
        /\ res.out.resp.redirect = res.req.path \o res.req.search
        /\ res.out.resp.error = ExpectedError)

\* the cookie of the request fails the local checks of its mode
InvalidCredential ==
  \/ ~res.req.auth.present
  \/ (~MultiUser /\ (res.req.auth.password = <<>> \/ res.req.auth.password # password))
  \/ (MultiUser /\ ~ValidSignature)

\* C17: route exemption, secret, cookie and password or signature are tested
\* before the directory is asked: a request without a cookie, or with a
\* wrong password or an invalid signature, causes no store query and no
\* status or config fetch.  (Fails: "db" queries the store and "status"
\* fetches /api/auth/status before the password or signature is looked at;
\* "verify" reads the configuration and never looks at either.)
C17_LocalChecksFirst ==
  (Handled /\ NonExempt /\ password # <<>> /\ InvalidCredential)
    => (/\ ~LogHas(LookupCalls)
        /\ ~ReachedLookup
        /\ res.out.lookup.fetches = 0)

(***************************************************************************)
(* Properties of the refresh under concurrency (SpecCache, SpecCacheLive)  *)
(***************************************************************************)
\* C18: a request that awaits the refresh fetch gets its verdict in the end
\* even if /api/server-config never answers, because the fetch times out and
\* counts as failed.  (Fails: the fetch has no timeout; a request whose
\* fetch is never answered waits for ever.)
C18_EventualVerdict ==
  \A p \in Procs : (procs[p].pc = "fetching") ~> (procs[p].pc = "idle")

\* C19: requests that find the cache stale together each fetch and write on
\* their own; whatever the order of the writes, every write stamps the cache
\* with the time of the write, so the stamp of the cache never decreases, a
\* snapshot once held is never dropped, and the cache holds the snapshot
\* with the newest stamp.
C19_NewestWins ==
  [][/\ banCache.present => (banCache'.present /\ banCache'.at >= banCache.at)
     /\ banCache' # banCache => (banCache'.present /\ banCache'.at = now)]_vars

\* two requests found the same stale snapshot and each fetched; the first
\* has written its snapshot, the second has its response and writes next
C19_Witness ==
  \E p \in Procs :
    /\ procs[p].pc = "responded"
    /\ Handled
    /\ res.variant = "cache"
    /\ res.out.lookup.fetches = 1
    /\ res.out.lookup.got
    /\ res.cache.present
    /\ procs[p].cache = res.cache
    /\ banCache.at = res.at
    /\ banCache.at > res.cache.at

\* C20: a request that arrives while the snapshot is stale and another
\* request's refresh is under way is answered from the snapshot the cache
\* holds and does not await a fetch: no two requests await a fetch at once
\* when the later of them found a snapshot.  (Fails: getBannedSet fetches
\* and awaits for every request that finds the cache stale.)
C20_ReadersNeverBlock ==
  \A p, q \in Procs :
    ~ (/\ p # q
       /\ procs[p].pc # "idle"
       /\ procs[q].pc # "idle"
       /\ procs[q].began >= procs[p].began
       /\ procs[q].cache.present)

(***************************************************************************)
(* Properties of a failing directory source (SpecFaults)                   *)
(***************************************************************************)
\* C21: an answer of /api/server-config whose body is not JSON counts as a
\* failed fetch: the lookup supplies no ban set (not an empty one), the
\* cached snapshot stays as it was, and the request ends exactly as it does
\* when the fetch itself fails.
C21_MalformedJsonIsFailure ==
  (Handled /\ res.fault = "json" /\ res.out.lookup.fetches > 0)
    => (/\ ~res.out.lookup.got
        /\ res.out.lookup.failed
        /\ res.variant = "cache" =>
             (/\ banCache = res.cache
              /\ res.out = MiddlewareCacheVerdict(res.req, NoSet, 1, FALSE))
        /\ res.variant = "fresh" => res.out = MiddlewareFresh(res.req, "network"))

\* a stale snapshot survived a refresh that was answered with a non-JSON body
C21_Witness ==
  /\ Handled
  /\ res.variant = "cache"
  /\ res.fault = "json"
  /\ res.out.lookup.fetches = 1
  /\ res.cache.present
  /\ banCache = res.cache
  /\ res.began - res.cache.at >= BAN_CACHE_TTL

(***************************************************************************)
(* Properties of the route handlers (Spec)                                 *)
(***************************************************************************)
\* C22: GET /api/auth/status?username=u answers 404 when the store does not
\* hold u, 403 when it holds u and the configuration has u banned, and 200
\* when it holds u and u is not banned; it never answers 200 for any other
\* user.  (A missing username is answered 400 and a failing store 500.)
C22_StatusCodes ==
  LET u == SearchParam(res.req.search)
  IN res.variant = "statusRoute" =>
       (/\ (res.fault = "none" /\ u # <<>>) =>
             res.out.resp.status = (IF u \notin dbUsers THEN 404
                                    ELSE IF u \in bannedUsers THEN 403 ELSE 200)
        /\ res.out.resp.status = 200 => (u \in dbUsers /\ u \notin bannedUsers))

\* the endpoint answered 403 for a user the store holds and the
\* configuration has banned
C22_Witness ==
  /\ res.variant = "statusRoute"
  /\ SearchParam(res.req.search) = UserA
  /\ UserA \in dbUsers
  /\ UserA \in bannedUsers
  /\ res.out.resp.status = 403

(***************************************************************************)
(* Properties of the directory entries and the ban set (SpecPure)          *)
(***************************************************************************)
\* an encoding that stands for "banned"
RecognizedEncoding(v) ==
  \/ v \in {JBool(TRUE), JNum(1)}
  \/ (v.t = "string" /\ ToLowerCase(v.s) \in
        { <<"1">>, <<"t", "r", "u", "e">>, <<"b", "a", "n", "n", "e", "d">>,
          <<"d", "i", "s", "a", "b", "l", "e", "d">> })

HasBanSignal(entry) ==
  \E f \in {"banned", "disabled", "status"} : RecognizedEncoding(entry[f])

\* the usernames the route reports as banned
ReportedBanned(users) ==
  { users[i].username.s : i \in { j \in 1..Len(users) : users[j].banned = JBool(TRUE) } }

\* a middleware fetched the directory while getConfig() returned call.cfg
FetchedDirectory ==
  /\ call.fn = "getConfig"
  /\ res.variant \in {"fresh", "cache"}
  /\ res.out.lookup.got
  /\ res.out.lookup.fetches = 1

\* C23: a directory entry that carries a recognized encoding of "banned"
\* (true, 1, '1', 'true', 'banned', 'disabled', in any case) under any of the
\* fields banned, disabled, status is reported with banned = true and every
\* other entry with banned = false; the ban set a middleware then fetches
\* holds exactly the usernames reported as banned.  (Fails: sanitizeUsers
\* reads only the first of the three fields that is defined.)
C23_BanSignalNormalized ==
  /\ call.fn = "getConfig"
       => \A i \in 1..Len(call.users) :
            call.users[i].banned = JBool(HasBanSignal(call.entry))
  /\ FetchedDirectory
       => { LOWER(n) : n \in res.out.lookup.set }
            = { LOWER(n) : n \in ReportedBanned(call.users) }

\* C24: a request that reaches the ban check is denied as banned exactly when
\* the case-normalized username of its credential equals the case-normalized
\* username of an entry the directory reports as banned.  (Fails: the
\* "cache" middleware compares the names as they are written.)
C24_SameNormalization ==
  FetchedDirectory
    => ((res.out.verdict = "DenyBanned")
          <=> (LOWER(res.req.auth.username) \in
                 { LOWER(n) : n \in ReportedBanned(call.users) }))

(***************************************************************************)
(* Properties of verifySignature (SpecPure)                                *)
(***************************************************************************)
\* not the hex spelling of a byte string: empty, of odd length, or with a
\* character that is no hex digit
Malformed(sig) ==
  \/ sig = <<>>
  \/ Len(sig) % 2 = 1
  \/ \E i \in 1..Len(sig) : ~IsHexDigit(sig[i])

\* C26: verifySignature answers false for every malformed signature string,
\* whatever the data and the secret.  (Fails: parseInt reads the hex digits
\* at the front of a piece and ignores the rest, and a last piece of one
\* digit is a byte too, so some malformed strings decode to the HMAC.)
C26_MalformedRejected ==
  (call.fn = "verifySignature" /\ Malformed(call.signature)) => ~call.ret

\* C27: a signature minted as sign(u, s) verifies for u under s and under no
\* other secret.
C27_RoundTrip ==
  call.fn = "verifySignature"
    => \A s \in SignSecrets :
         call.signature = Sign(call.data, s) => (call.ret <=> call.secret = s)

C27_Witness ==
  /\ call.fn = "verifySignature"
  /\ call.data = <<"b", "A">>
  /\ call.signature = Sign(call.data, call.secret)
  /\ call.ret

(***************************************************************************)
(* Properties of the route classifier, the fetches and the cookie (Spec)   *)
(***************************************************************************)
\* the paths the route classifier is to exempt: the login and registration
\* surfaces, logout, the scheduled job, static assets, the directory endpoint
ExemptPrefixes ==
  { <<"/", "login">>, <<"/", "register">>, <<"/", "api", "/", "login">>,
    <<"/", "api", "/", "register">>, <<"/", "api", "/", "logout">>,
    <<"/", "api", "/", "cron">>, <<"/", "api", "/", "server-config">>,
    <<"/", "_next", "/", "static">>, <<"/", "_next", "/", "image">>,
    <<"/", "favicon", ".ico">>, <<"/", "robots.txt">>, <<"/", "manifest", ".json">>,
    <<"/", "icons", "/">>, <<"/", "logo.png">>, <<"/", "screenshot.png">> }

ClaimedExempt(path) == \E p \in ExemptPrefixes : StartsWith(path, p)

\* C25: matcher and skip list together let a request pass without any check
\* exactly when its path is on the login or registration surface, the logout
\* endpoint, the scheduled-job endpoint, a static asset or the directory
\* endpoint.  (Fails: /warning is exempt everywhere, /register only in
\* "verify", /logo.png not in "fresh".)
C25_ExemptList ==
  Handled => (~NonExempt <=> ClaimedExempt(res.req.path))

\* C28: the handling of one request issues at most one directory fetch.
\* (Fails: the fetch of the "status" middleware re-enters the middleware,
\* which fetches again.)
C28_OneFetch ==
  Handled => res.out.lookup.fetches <= 1

\* a host name that is an IP address or has no dot
BareHost(host) ==
  \/ host = HostLocal
  \/ \A i \in 1..Len(host) : host[i] \in {".", "127", "0", "1"}

\* C29: a denying response that deletes the cookie deletes it for the root
\* path without a domain, and also for the host and for the registrable
\* domain exactly when the host is neither an IP address nor localhost.
\* (Fails: logoutAndBlock and killAuthAndBlock delete once; clearAuth adds
\* the host for every name with a dot, IP addresses included, and never the
\* registrable domain.)
C29_DeletionScopes ==
  (Handled /\ res.ran /\ ~Allowed /\ res.out.resp.deletes # {})
    => /\ "root" \in res.out.resp.deletes
       /\ ({"host", "domain"} \subseteq res.out.resp.deletes) <=> ~BareHost(res.req.host)

\* C30: when getConfig() throws, /api/server-config answers 503, a
\* middleware that fetches it gets no ban set, empty or not, and the
\* fail-closed middleware ("fresh") denies the request.
C30_ConfigFailureDenies ==
  (res.variant \in {"fresh", "cache"} /\ res.fault = "store" /\ res.out.lookup.fetches = 1)
    => /\ ServerConfigGET(res.fault).status = 503
       /\ ~res.out.lookup.got
       /\ res.out.lookup.failed
       /\ res.variant = "fresh"
            => (~Allowed /\ res.out.verdict = "DenyConfigUnavailable")

C30_Witness ==
  /\ res.variant = "fresh"
  /\ res.fault = "store"
  /\ ValidSignature
  /\ MultiUser
  /\ res.out.lookup.fetches = 1
  /\ res.out.verdict = "DenyConfigUnavailable"

(***************************************************************************)
(* Properties of the "status" middleware and the route handlers (Spec)     *)
(***************************************************************************)
\* the "status" middleware called checkUserAuthorization
AskedStatus == res.variant = "status" /\ res.ran /\ res.out.lookup.authz # -1

\* C31: in the "status" middleware a request goes on to the password or
\* signature check only when /api/auth/status answered 2xx; after a 403, a
\* 404, any other status or a failed fetch it is denied at once, through the
\* authorization failure, and its signature is never verified.
C31_AuthorizedOnly2xx ==
  AskedStatus
    => /\ Allowed => Ok(res.out.lookup.authz)
       /\ ~Ok(res.out.lookup.authz)
            => /\ res.out.verdict = VerdictOf(ReasonAuthZ)
               /\ res.out.resp = handleAuthFailureStatus(res.req, ReasonAuthZ)
               /\ ~LogHas({"verifySignature"})
       /\ Ok(res.out.lookup.authz) => res.out.verdict # VerdictOf(ReasonAuthZ)

C31_Witness ==
  /\ AskedStatus
  /\ res.out.lookup.authz = 404
  /\ ValidSignature
  /\ MultiUser
  /\ ~Allowed

\* /api/detail answered a client
DetailAnswered == res.variant = "detailRoute"
DbMode == storageType \in {"d1", "redis", "upstash"}
CallerNamed == res.req.auth.present /\ res.req.auth.username # <<>>
CallerBanned == res.req.auth.username \in bannedUsers
CallerVerified == verifyUser(res.req.auth.username, res.req.auth.password)

\* C32: /api/detail answers 401 without a username in the cookie, else 403
\* for a banned user, else in d1/redis/upstash mode 500 when the store throws
\* during verification and 401 when verification fails; 400 is answered only
\* to a caller that passed all of that, and the upstream detail is fetched
\* for no other caller.  (The configuration is assumed to load.)
C32_DetailOrder ==
  (DetailAnswered /\ res.fault # "store")
    => LET st == res.out.resp.status
       IN /\ ~CallerNamed => st = 401
          /\ (CallerNamed /\ CallerBanned) => st = 403
          /\ (CallerNamed /\ ~CallerBanned /\ DbMode /\ res.fault = "db") => st = 500
          /\ (CallerNamed /\ ~CallerBanned /\ DbMode /\ res.fault # "db" /\ ~CallerVerified)
               => st = 401
          /\ (st = 400 \/ LogHas({"getAvailableApiSites", "getDetailFromApi"}))
               => (CallerNamed /\ ~CallerBanned /\ (DbMode => CallerVerified))

C32_Witness ==
  /\ DetailAnswered
  /\ res.fault = "none"
  /\ CallerNamed
  /\ CallerBanned
  /\ ParamId(res.req.search) = <<>>
  /\ res.out.resp.status = 403

(***************************************************************************)
(* Properties of unrecognized directory shapes (SpecPure)                  *)
(***************************************************************************)
\* an entry without a username under any alias, or whose username is empty
\* or blank
Nameless(entry) ==
  \/ entry.username.t = "undefined" /\ entry.name.t = "undefined"
       /\ entry.userName.t = "undefined"
  \/ entry.username.t = "string" /\ Trim(entry.username.s) = <<>>

\* the entries of a list that carry a username
WithName(items) == SelectSeq2(items, [i \in 1..Len(items) |-> ~Nameless(items[i])])

C34_StatusPrecedence ==
  LET u == SearchParam(res.req.search)
      st == res.out.resp.status
  IN res.variant = "statusRoute"
       => /\ u = <<>> => st = 400
          /\ (u # <<>> /\ res.fault = "store") => st = 500
          /\ (u # <<>> /\ res.fault = "none" /\ u \notin dbUsers /\ u \in bannedUsers)
               => st = 404

\* the endpoint answered 404 for a deleted user that is still listed as banned
C34_Witness ==
  /\ res.variant = "statusRoute"
  /\ res.fault = "none"
  /\ SearchParam(res.req.search) = UserA
  /\ UserA \notin dbUsers
  /\ UserA \in bannedUsers
  /\ res.out.resp.status = 404

(***************************************************************************)
(* Properties of the refresh (SpecFaults, SpecCache)                       *)
(***************************************************************************)
\* C35: banCache changes only in the step in which a request comes back
\* from a fetch that answered 2xx with a JSON body; a refresh that fails
\* (network error, other status, body that is not JSON) leaves the snapshot
\* and its timestamp as they were.
C35_FailedRefreshKeepsCache ==
  [][/\ \A p \in Procs :
          (procs[p].pc = "responded" /\ procs'[p].pc = "idle"
             /\ FaultOf(procs[p].resp) # "none") => banCache' = banCache
     /\ banCache' # banCache
          => \E p \in Procs : /\ procs[p].pc = "responded"
                              /\ procs'[p].pc = "idle"
                              /\ FaultOf(procs[p].resp) = "none"]_vars

\* a refresh failed on a 503 while a snapshot with a banned user was held
C35_Witness ==
  /\ res.variant = "cache"
  /\ res.fault = "store"
  /\ res.cache.set # {}
  /\ res.out.lookup.fetches = 1
  /\ res.cache.present
  /\ banCache = res.cache

\* C36: while bans are only added, a snapshot that banCache holds is never
\* replaced by one with fewer bans, that is, by one fetched from an older
\* state of the directory.  (Fails: the response that arrives last is
\* written, whenever the route handler produced it.)
C36_NoRegression ==
  [][banCache.present => (banCache'.present /\ banCache.set \subseteq banCache'.set)]_vars

(***************************************************************************)
(* Redirects (Spec)                                                        *)
(***************************************************************************)
\* C37: every page a middleware redirects to (/login, /warning) is a path
\* on which the same middleware does not run or which its skip list holds,
\* and a request for such a page is passed on whatever its cookie: following
\* a redirect never ends in another redirect.
C37_NoRedirectLoop ==
  /\ (Handled /\ res.out.resp.kind = "redirect")
       => /\ res.out.resp.location \in {PathLogin, PathWarning}
          /\ \/ ~Matches(res.variant, res.out.resp.location)
             \/ Skips(res.variant, res.out.resp.location)
  /\ (Handled /\ res.req.path \in {PathLogin, PathWarning})
       => (Allowed /\ res.out.resp.kind = "next")

\* a deployment without a secret sent a visitor to /warning
C37_Witness ==
  /\ Handled
  /\ res.ran
  /\ password = <<>>
  /\ res.out.resp.kind = "redirect"
  /\ res.out.resp.location = PathWarning

====
